---- MODULE Spec2Model ----
(***************************************************************************)
(* Client scripts of saas_package_management: the Customer Site form and   *)
(* its site-creation progress dialog (create_site_with_progress,           *)
(* start_site_creation, update_progress).                                  *)
(*                                                                         *)
(* JavaScript values are modelled as follows.  An optional value (a field  *)
(* that may be undefined) is a sequence of length at most one: <<>> is     *)
(* undefined and <<x>> is the value x.  A string that the code inspects or *)
(* concatenates is a sequence of tokens, a token being one character or    *)
(* one string literal of the source.                                       *)
(***************************************************************************)
EXTENDS Integers, Sequences, FiniteSets, TLC

(* ---- bounds of the model ---- *)
MaxLaunches == 2
MaxEvents == 2
\* the bounds of the runs with a single launch (SpecSingle)
SingleLaunches == 1
SingleEvents == 1

(* ---- optional values ---- *)
None == <<>>
Some(x) == <<x>>
IsNone(o) == o = <<>>
Get(o) == o[1]

(* ---- strings ---- *)
EmptyStr == <<>>
failed == <<"f", "a", "i", "l", "e", "d">>
MsgDone == <<"d", "o", "n", "e">>
MsgRetryFailed == <<"r", "e", " ">> \o failed
MsgFailedCaps == <<"F", "a", "i", "l", "e", "d">>
MsgQuota == <<"q", "u", "o", "t", "a">>
MsgOtherDone == <<"o", "t", "h", "e", "r", " ">> \o MsgDone
MsgOtherStep == <<"o", "t", "h", "e", "r", " ", "s", "t", "e", "p">>

\* String.prototype.includes: sub occurs in s as a contiguous run
Includes(s, sub) ==
    \E i \in 0..(Len(s) - Len(sub)) : SubSeq(s, i + 1, i + Len(sub)) = sub

\* JavaScript truthiness of an optional string: undefined and '' are falsy
Falsy(o) == IsNone(o) \/ Get(o) = EmptyStr

\* o || dflt for an optional string
StrOr(o, dflt) == IF Falsy(o) THEN dflt ELSE Get(o)

\* o || 0 for an optional number
NumOr0(o) == IF IsNone(o) THEN 0 ELSE Get(o)

(* ---- the values the environment supplies ---- *)
Statuses == {"Active", "Suspended", "Expired", "Cancelled"}
FieldValues == {None, Some(EmptyStr), Some(<<"v">>)}
FieldNames == {"custom_domain", "instance", "package"}
Docs == [status : Statuses, custom_domain : FieldValues,
         instance : FieldValues, package : FieldValues]
DocName == "acme-site"
\* another Customer Site, created from another form or session
OtherSite == "other-site"
\* a progress value above the range of the gauge
OverRange == 150
\* what the server may hold for a record the client last saw as d: the
\* client saves nothing, the server sets the status
ServerDocs(d) == {[d EXCEPT !.status = s] : s \in Statuses}

\* a progress event: progress and message are the payload the listener
\* reads; site is the Customer Site whose creation the server published the
\* event for (the channel name carries no site)
EventFor(site, p, m) == [progress |-> p, message |-> m, site |-> site]
Event(p, m) == EventFor(DocName, p, m)
ProgressEvents ==
    {Event(Some(100), Some(MsgDone)), Event(Some(100), Some(MsgRetryFailed)),
     Event(Some(100), None),
     Event(Some(0), Some(MsgRetryFailed)), Event(Some(0), Some(MsgFailedCaps)),
     Event(Some(0), None),
     Event(Some(50), Some(MsgRetryFailed)),
     Event(Some(OverRange), Some(MsgDone)),
     EventFor(OtherSite, Some(100), Some(MsgOtherDone)),
     EventFor(OtherSite, Some(50), Some(MsgOtherStep))}

\* r.message of the create_site response
Responses == {None,
              Some([success |-> TRUE, message |-> None]),
              Some([success |-> FALSE, message |-> Some(MsgQuota)]),
              Some([success |-> FALSE, message |-> None])}

(* ---- literals of the source ---- *)
TextInitializing == <<"Initializing...">>
TextStarted == <<"Site creation process started...">>
TextStartFailedPrefix == <<"Failed to start site creation: ">>
TextUnknownError == <<"Unknown error">>
TextCreated == <<"Site created successfully!">>
TextCreationFailedPrefix == <<"Site creation failed: ">>
MsgDomainRequired == "Custom Domain is required to create site"
MsgInstanceRequired == "Instance is required to create site"
MsgPackageRequired == "Package is required to create site"
CreateSiteMethod == "customer_site.create_site"

VARIABLES
    doc,            \* frm.doc of the open Customer Site form
    buttonOffered,  \* the Create Site button was added by the last refresh
    prompts,        \* open confirmation prompts of create_site_with_progress
    declined,       \* number of confirmation prompts the user declined
    msgprints,      \* frappe.msgprint calls, in order
    sessions,       \* progress dialogs, in creation order
    listeners,      \* site_creation_progress listeners, in registration order
    calls,          \* create_site RPCs, in issue order
    alerts,         \* frappe.show_alert calls, in order
    reloads,        \* number of frm.reload_doc calls
    delivered,      \* number of progress events delivered on the channel
    ia,             \* the open Instance Action form
    xa,             \* the Instance Action list view (Execute All Pending)
    bulk,           \* the Customer Request list view (Bulk Update Status)
    cr,             \* the open Customer Request forms and their server
    dom             \* customer_name and custom_domain of a Customer Request form

vars == <<doc, buttonOffered, prompts, declined, msgprints, sessions, listeners,
          calls, alerts, reloads, delivered, ia, xa, bulk, cr, dom>>

\* the variables of the Customer Site form and of the other scripts
siteVars == <<doc, buttonOffered, prompts, declined, msgprints, sessions,
              listeners, calls, alerts, reloads, delivered>>
otherVars == <<ia, xa, bulk, cr, dom>>

\* a script that has not been loaded: no form, no list view, nothing sent
Unloaded == <<>>

\* Customer Site refresh: the button is added iff status is 'Active'
RefreshOffers(d) == d.status = "Active"

Init ==
    /\ doc \in Docs
    /\ buttonOffered = RefreshOffers(doc)
    /\ prompts = 0
    /\ declined = 0
    /\ msgprints = <<>>
    /\ sessions = <<>>
    /\ listeners = <<>>
    /\ calls = <<>>
    /\ alerts = <<>>
    /\ reloads = 0
    /\ delivered = 0
    /\ ia = Unloaded /\ xa = Unloaded /\ bulk = Unloaded /\ cr = Unloaded
    /\ dom = Unloaded

\* the checks without the one of package
ValidateSkipsPackage(d) ==
    IF Falsy(d.custom_domain) THEN Some(MsgDomainRequired)
    ELSE IF Falsy(d.instance) THEN Some(MsgInstanceRequired)
    ELSE None

\* the checks with instance tested before custom_domain
ValidateInstanceFirst(d) ==
    IF Falsy(d.instance) THEN Some(MsgInstanceRequired)
    ELSE IF Falsy(d.custom_domain) THEN Some(MsgDomainRequired)
    ELSE IF Falsy(d.package) THEN Some(MsgPackageRequired)
    ELSE None

\* create_site_with_progress, the three checks: the message of the first
\* check that fails, or None when all pass
Validate(d) ==
    IF Falsy(d.custom_domain) THEN Some(MsgDomainRequired)
    ELSE IF Falsy(d.instance) THEN Some(MsgInstanceRequired)
    ELSE IF Falsy(d.package) THEN Some(MsgPackageRequired)
    ELSE None

\* the user clicks Create Site: create_site_with_progress(frm)
CreateSiteWithProgress ==
    /\ buttonOffered
    /\ prompts + declined + Len(sessions) + Len(msgprints) < MaxLaunches
    /\ IF IsNone(Validate(doc))
          THEN /\ prompts' = prompts + 1
               /\ UNCHANGED msgprints
          ELSE /\ msgprints' = Append(msgprints, Get(Validate(doc)))
               /\ UNCHANGED prompts
    /\ UNCHANGED <<doc, buttonOffered, declined, sessions, listeners, calls,
                   alerts, reloads, delivered>>

\* new frappe.ui.Dialog(...) of start_site_creation, after show()
NewDialog ==
    [visible |-> TRUE, bar |-> 0, text |-> TextInitializing, log |-> <<>>]

\* frappe.call({method: create_site, args: {customer_site: frm.doc.name}})
NewCall(session) ==
    [method |-> CreateSiteMethod, customer_site |-> DocName,
     session |-> session, state |-> "sent", response |-> None]

\* a decline that runs the continuation of the confirmation all the same
ConfirmNoStarts ==
    /\ prompts > 0
    /\ prompts' = prompts - 1
    /\ declined' = declined + 1
    /\ sessions' = Append(sessions, NewDialog)
    /\ listeners' = Append(listeners, Len(sessions) + 1)
    /\ calls' = Append(calls, NewCall(Len(sessions) + 1))
    /\ UNCHANGED <<doc, buttonOffered, msgprints, alerts, reloads, delivered>>

\* the user declines the confirmation: frappe.confirm runs no continuation
ConfirmNo ==
    /\ prompts > 0
    /\ prompts' = prompts - 1
    /\ declined' = declined + 1
    /\ UNCHANGED <<doc, buttonOffered, msgprints, sessions, listeners,
                   calls, alerts, reloads, delivered>>

\* the user confirms: start_site_creation(frm) shows the dialog, registers
\* the listener of this dialog and issues the start call
StartSiteCreation ==
    /\ prompts > 0
    /\ prompts' = prompts - 1
    /\ sessions' = Append(sessions, NewDialog)
    /\ listeners' = Append(listeners, Len(sessions) + 1)
    /\ calls' = Append(calls, NewCall(Len(sessions) + 1))
    /\ UNCHANGED <<doc, buttonOffered, declined, msgprints, alerts, reloads,
                   delivered>>

\* `[${timestamp}] ${message}\n`; the formatted time of day is one token
LogEntry(message) == <<"[", "toLocaleTimeString", "] ">> \o message \o <<"\n">>

\* update_progress that skips the log line when the last line already
\* shows the same message
UpdateProgressDedup(percentage, message, dialog) ==
    [dialog EXCEPT !.bar = percentage,
                   !.text = message,
                   !.log = IF @ # <<>> /\ @[Len(@)] = LogEntry(message)
                              THEN @
                              ELSE Append(@, LogEntry(message))]

\* update_progress(percentage, message, dialog)
UpdateProgress(percentage, message, dialog) ==
    [dialog EXCEPT !.bar = percentage,
                   !.text = message,
                   !.log = Append(@, LogEntry(message))]

GreenAlert == [indicator |-> "green", message |-> TextCreated]
RedAlert(message) == [indicator |-> "red", message |-> message]

\* the listener with the failure test first: a message containing 'failed'
\* is a failure even at progress 100
ListenerFailedFirst(d, i, st) ==
    LET shown == [st EXCEPT !.sessions[i] =
                     UpdateProgress(NumOr0(d.progress),
                                    StrOr(d.message, EmptyStr), @)]
    IN  IF ~IsNone(d.message) /\ Includes(Get(d.message), failed)
           THEN [shown EXCEPT !.alerts =
                    Append(@, RedAlert(TextCreationFailedPrefix
                                       \o Get(d.message)))]
        ELSE IF d.progress = Some(100)
           THEN [shown EXCEPT !.reloads = @ + 1,
                              !.alerts = Append(@, GreenAlert)]
        ELSE shown

\* the listener without the test of the message: every event with progress 0
\* and a message is a failure
ListenerZeroFails(d, i, st) ==
    LET shown == [st EXCEPT !.sessions[i] =
                     UpdateProgress(NumOr0(d.progress),
                                    StrOr(d.message, EmptyStr), @)]
    IN  IF d.progress = Some(100)
           THEN [shown EXCEPT !.reloads = @ + 1,
                              !.alerts = Append(@, GreenAlert)]
        ELSE IF d.progress = Some(0)
           THEN IF IsNone(d.message)
                   THEN [shown EXCEPT !.threw = TRUE]
                ELSE [shown EXCEPT !.alerts =
                         Append(@, RedAlert(TextCreationFailedPrefix
                                            \o Get(d.message)))]
        ELSE shown

\* the listener without the test progress === 0: a message containing
\* 'failed' is a failure at any progress but 100
ListenerFailedAnyProgress(d, i, st) ==
    LET shown == [st EXCEPT !.sessions[i] =
                     UpdateProgress(NumOr0(d.progress),
                                    StrOr(d.message, EmptyStr), @)]
    IN  IF d.progress = Some(100)
           THEN [shown EXCEPT !.reloads = @ + 1,
                              !.alerts = Append(@, GreenAlert)]
        ELSE IF IsNone(d.message)
           THEN [shown EXCEPT !.threw = TRUE]
        ELSE IF Includes(Get(d.message), failed)
           THEN [shown EXCEPT !.alerts =
                    Append(@, RedAlert(TextCreationFailedPrefix
                                       \o Get(d.message)))]
        ELSE shown

\* the listener acting only while its dialog is shown
ListenerVisibleOnly(d, i, st) ==
    LET shown == [st EXCEPT !.sessions[i] =
                     UpdateProgress(NumOr0(d.progress),
                                    StrOr(d.message, EmptyStr), @)]
    IN  IF ~st.sessions[i].visible
           THEN st
        ELSE IF d.progress = Some(100)
           THEN [shown EXCEPT !.reloads = @ + 1,
                              !.alerts = Append(@, GreenAlert)]
        ELSE IF d.progress = Some(0)
           THEN IF IsNone(d.message)
                   THEN [shown EXCEPT !.threw = TRUE]
                ELSE IF Includes(Get(d.message), failed)
                   THEN [shown EXCEPT !.alerts =
                            Append(@, RedAlert(TextCreationFailedPrefix
                                               \o Get(d.message)))]
                ELSE shown
        ELSE shown

\* the listener ignoring the events published for another site
ListenerOwnSite(d, i, st) ==
    LET shown == [st EXCEPT !.sessions[i] =
                     UpdateProgress(NumOr0(d.progress),
                                    StrOr(d.message, EmptyStr), @)]
    IN  IF d.site # DocName
           THEN st
        ELSE IF d.progress = Some(100)
           THEN [shown EXCEPT !.reloads = @ + 1,
                              !.alerts = Append(@, GreenAlert)]
        ELSE IF d.progress = Some(0)
           THEN IF IsNone(d.message)
                   THEN [shown EXCEPT !.threw = TRUE]
                ELSE IF Includes(Get(d.message), failed)
                   THEN [shown EXCEPT !.alerts =
                            Append(@, RedAlert(TextCreationFailedPrefix
                                               \o Get(d.message)))]
                ELSE shown
        ELSE shown

\* one run of the site_creation_progress listener that start_site_creation
\* registered for dialog i, on event d, from the effects st so far.
\* data.message.includes throws when progress is 0 and message is undefined.
Listener(d, i, st) ==
    LET shown == [st EXCEPT !.sessions[i] =
                     UpdateProgress(NumOr0(d.progress),
                                    StrOr(d.message, EmptyStr), @)]
    IN  IF d.progress = Some(100)
           THEN [shown EXCEPT !.reloads = @ + 1,
                              !.alerts = Append(@, GreenAlert)]
        ELSE IF d.progress = Some(0)
           THEN IF IsNone(d.message)
                   THEN [shown EXCEPT !.threw = TRUE]
                ELSE IF Includes(Get(d.message), failed)
                   THEN [shown EXCEPT !.alerts =
                            Append(@, RedAlert(TextCreationFailedPrefix
                                               \o Get(d.message)))]
                ELSE shown
        ELSE shown

\* the channel calls the registered listeners in registration order; when
\* one throws, the emitter either stops (stops = TRUE) or goes on
RECURSIVE Dispatch(_, _, _, _)
Dispatch(ls, d, st, stops) ==
    IF ls = <<>> \/ (st.threw /\ stops) THEN st
    ELSE Dispatch(Tail(ls), d, Listener(d, Head(ls), st), stops)

\* a progress event arrives on the site_creation_progress channel
Deliver(d, stops) ==
    /\ delivered < MaxEvents
    /\    LET st == Dispatch(listeners, d,
                             [sessions |-> sessions, alerts |-> alerts,
                              reloads |-> reloads, threw |-> FALSE],
                             stops)
          IN  /\ delivered' = delivered + 1
              /\ sessions' = st.sessions
              /\ alerts' = st.alerts
              /\ reloads' = st.reloads
              \* frm.reload_doc() replaces frm.doc by the server's record,
              \* whose status the server may have changed, and refreshes
              /\ IF st.reloads > reloads
                    THEN /\ doc' \in ServerDocs(doc)
                         /\ buttonOffered' = RefreshOffers(doc')
                    ELSE UNCHANGED <<doc, buttonOffered>>
    /\ UNCHANGED <<prompts, declined, msgprints, listeners, calls>>

DeliverEvent == \E d \in ProgressEvents, stops \in BOOLEAN : Deliver(d, stops)

\* the callback treating a successful acknowledgment as the end of the
\* creation: it reloads and raises the success alert
StartCallbackTerminal(r, c, st) ==
    IF ~IsNone(r) /\ Get(r).success
       THEN [st EXCEPT !.sessions[c.session] =
                UpdateProgress(5, TextStarted, @),
                       !.reloads = @ + 1,
                       !.alerts = Append(@, GreenAlert)]
    ELSE IF IsNone(r)
       THEN [st EXCEPT !.threw = TRUE]
    ELSE LET text == TextStartFailedPrefix
                     \o StrOr(Get(r).message, TextUnknownError)
         IN  [st EXCEPT !.sessions[c.session] = UpdateProgress(0, text, @),
                        !.alerts = Append(@, RedAlert(text))]

\* the callback hiding the dialog when the start failed
StartCallbackHidesOnFailure(r, c, st) ==
    IF ~IsNone(r) /\ Get(r).success
       THEN [st EXCEPT !.sessions[c.session] =
                UpdateProgress(5, TextStarted, @)]
    ELSE IF IsNone(r)
       THEN [st EXCEPT !.threw = TRUE]
    ELSE LET text == TextStartFailedPrefix
                     \o StrOr(Get(r).message, TextUnknownError)
         IN  [st EXCEPT !.sessions[c.session] =
                           [UpdateProgress(0, text, @) EXCEPT !.visible = FALSE],
                        !.alerts = Append(@, RedAlert(text))]

\* the callback of the start call, for the response r.message = r to call c.
\* r.message.message throws when r.message is undefined.
StartCallback(r, c, st) ==
    IF ~IsNone(r) /\ Get(r).success
       THEN [st EXCEPT !.sessions[c.session] =
                UpdateProgress(5, TextStarted, @)]
    ELSE IF IsNone(r)
       THEN [st EXCEPT !.threw = TRUE]
    ELSE LET text == TextStartFailedPrefix
                     \o StrOr(Get(r).message, TextUnknownError)
         IN  [st EXCEPT !.sessions[c.session] = UpdateProgress(0, text, @),
                        !.alerts = Append(@, RedAlert(text))]

\* the start call k is answered with r and its callback runs
Ack(k, r) ==
    /\ k \in 1..Len(calls)
    /\ calls[k].state = "sent"
    /\ calls' = [calls EXCEPT ![k].state = "done", ![k].response = r]
    /\    LET st == StartCallback(r, calls[k],
                                  [sessions |-> sessions, alerts |-> alerts,
                                   reloads |-> reloads, threw |-> FALSE])
          IN  /\ sessions' = st.sessions
              /\ alerts' = st.alerts
              /\ reloads' = st.reloads
              /\ IF st.reloads > reloads
                    THEN /\ doc' \in ServerDocs(doc)
                         /\ buttonOffered' = RefreshOffers(doc')
                    ELSE UNCHANGED <<doc, buttonOffered>>
    /\ UNCHANGED <<prompts, declined, msgprints, listeners, delivered>>

StartAck == \E k \in 1..Len(calls), r \in Responses : Ack(k, r)

\* a transport failure after which the start call is issued again, once
StartTransportFailureRetries ==
    /\ \E k \in 1..Len(calls) :
          /\ calls[k].state = "sent"
          /\ calls' = IF Len(calls) = Len(sessions)
                         THEN Append([calls EXCEPT ![k].state = "failed"],
                                     NewCall(calls[k].session))
                         ELSE [calls EXCEPT ![k].state = "failed"]
    /\ UNCHANGED <<doc, buttonOffered, prompts, declined, msgprints, sessions,
                   listeners, alerts, reloads, delivered>>

\* the start call fails in transport: frappe.call was given no error
\* handler, so no code of the script runs
StartTransportFailure ==
    /\ \E k \in 1..Len(calls) :
          /\ calls[k].state = "sent"
          /\ calls' = [calls EXCEPT ![k].state = "failed"]
    /\ UNCHANGED <<doc, buttonOffered, prompts, declined, msgprints, sessions,
                   listeners, alerts, reloads, delivered>>

\* primary_action of the dialog: progress_dialog.hide()
Hide(dialog) == [dialog EXCEPT !.visible = FALSE]

\* a Close that also removes the listener of the dialog from the channel
CloseUnsubscribes(i) ==
    /\ i \in 1..Len(sessions)
    /\ sessions[i].visible
    /\ sessions' = [sessions EXCEPT ![i] = Hide(@)]
    /\ listeners' = SelectSeq(listeners, LAMBDA x : x # i)
    /\ UNCHANGED <<doc, buttonOffered, prompts, declined, msgprints,
                   calls, alerts, reloads, delivered>>

\* the user presses Close on dialog i
Close(i) ==
    /\ i \in 1..Len(sessions)
    /\ sessions[i].visible
    /\ sessions' = [sessions EXCEPT ![i] = Hide(@)]
    /\ UNCHANGED <<doc, buttonOffered, prompts, declined, msgprints, listeners,
                   calls, alerts, reloads, delivered>>

CloseDialog == \E i \in 1..Len(sessions) : Close(i)

Next ==
    \/ CreateSiteWithProgress /\ UNCHANGED otherVars
    \/ ConfirmNo /\ UNCHANGED otherVars
    \/ StartSiteCreation /\ UNCHANGED otherVars
    \/ DeliverEvent /\ UNCHANGED otherVars
    \/ StartAck /\ UNCHANGED otherVars
    \/ StartTransportFailure /\ UNCHANGED otherVars
    \/ CloseDialog /\ UNCHANGED otherVars

Spec == Init /\ [][Next]_vars

\* the same handlers within the smaller bounds: what a form does with at
\* most SingleLaunches clicks on Create Site and SingleEvents progress events
LaunchWithinSingle ==
    prompts + declined + Len(sessions) + Len(msgprints) < SingleLaunches

DeliverWithinSingle == delivered < SingleEvents

NextSingle ==
    \/ LaunchWithinSingle /\ CreateSiteWithProgress /\ UNCHANGED otherVars
    \/ ConfirmNo /\ UNCHANGED otherVars
    \/ StartSiteCreation /\ UNCHANGED otherVars
    \/ DeliverWithinSingle /\ DeliverEvent /\ UNCHANGED otherVars
    \/ StartAck /\ UNCHANGED otherVars
    \/ StartTransportFailure /\ UNCHANGED otherVars
    \/ CloseDialog /\ UNCHANGED otherVars

SpecSingle == Init /\ [][NextSingle]_vars

(***************************************************************************)
(* The Instance Action form: refresh, the instance handler and the buttons *)
(* Execute Action, Cancel Action and Refresh Sites.                        *)
(***************************************************************************)

\* bounds: calls issued from one form, saves started from one form
MaxActionCalls == 2
MaxSaves == 2

\* no Customer Site form is open
SiteIdle ==
    /\ doc = Unloaded
    /\ buttonOffered = FALSE
    /\ prompts = 0
    /\ declined = 0
    /\ msgprints = <<>>
    /\ sessions = <<>>
    /\ listeners = <<>>
    /\ calls = <<>>
    /\ alerts = <<>>
    /\ reloads = 0
    /\ delivered = 0

ActionStatuses == {"Pending", "In Progress", "Completed", "Failed", "Cancelled"}
InstanceA == "inst-a"
InstanceB == "inst-b"
Instances == {InstanceA, InstanceB}

\* an entry of the list that get_instance_sites returns
Site(name, customerSite) == [site_name |-> name, customer_site |-> customerSite]

\* the sites the server finds on an instance: the list of InstanceA names a1
\* twice, first with a Customer Site and then without
SitesOf(i) ==
    IF i = InstanceA
       THEN <<Site("a1", Some("CS-a1")), Site("a2", None), Site("a1", None)>>
       ELSE <<Site("b1", None)>>

\* r.message of a get_instance_sites call issued with args.instance = i
SiteReplies(i) ==
    {None, Some(<<>>)}
       \cup (IF IsNone(i) THEN {} ELSE {Some(SitesOf(Get(i)))})

\* a row of the site_actions child table
Row(name, site, action) == [site_name |-> name, site |-> site, action |-> action]
OldTable == <<Row("a1", None, "Stop Site")>>

AlertSaved == [indicator |-> "green", message |-> "Found sites and saved"]
AlertNoSites == [indicator |-> "orange", message |-> "No sites found"]
AlertSitesFailed == [indicator |-> "red", message |-> "Failed to get sites"]
CancelLine == <<"\n", "Action cancelled by user.">>

\* refresh with Cancel Action offered for a Pending record as well
RefreshButtonsCancelPending(f) ==
    (IF f.status = "Pending" /\ ~f.islocal THEN {"Execute Action"} ELSE {})
    \cup (IF f.status \in {"In Progress", "Pending"}
             THEN {"Cancel Action"} ELSE {})
    \cup (IF ~IsNone(f.instance)
             THEN {"Get Instance Status", "Refresh Sites"} ELSE {})
    \cup (IF f.site_actions # <<>> THEN {"Toggle Maintenance Mode"} ELSE {})

\* Instance Action refresh: the custom buttons it adds for the record f
RefreshButtons(f) ==
    (IF f.status = "Pending" /\ ~f.islocal THEN {"Execute Action"} ELSE {})
    \cup (IF f.status = "In Progress" THEN {"Cancel Action"} ELSE {})
    \cup (IF ~IsNone(f.instance)
             THEN {"Get Instance Status", "Refresh Sites"} ELSE {})
    \cup (IF f.site_actions # <<>> THEN {"Toggle Maintenance Mode"} ELSE {})

\* the form of a record as the first refresh leaves it
ActionForm(status, islocal, instance, table, log) ==
    LET f == [status |-> status, islocal |-> islocal, instance |-> instance,
              site_actions |-> table, end_time |-> None,
              execution_log |-> log, offered |-> {}, requests |-> <<>>,
              alerts |-> <<>>, saves |-> 0]
    IN  [f EXCEPT !.offered = RefreshButtons(f)]

ActionForms ==
    {ActionForm(s, l, i, t, g) :
        s \in ActionStatuses, l \in BOOLEAN, i \in {None, Some(InstanceA)},
        t \in {<<>>, OldTable}, g \in {None, Some(<<"started">>)}}

InitAction ==
    /\ SiteIdle
    /\ ia \in ActionForms
    /\ xa = Unloaded /\ bulk = Unloaded /\ cr = Unloaded
    /\ dom = Unloaded

\* frappe.call of get_instance_sites / execute_instance_action
ActionCall(kind, instance) ==
    [kind |-> kind, instance |-> instance, state |-> "sent"]

\* r.message.forEach(site => ...): a site whose site_name is already in the
\* table is skipped, any other gets a new row with action 'Start Site' and
\* with site set only when the entry has a customer_site
RECURSIVE AddSites(_, _)
AddSites(table, sites) ==
    IF sites = <<>> THEN table
    ELSE LET site == Head(sites)
             existing == \E j \in 1..Len(table) :
                            table[j].site_name = site.site_name
         IN  AddSites(IF existing THEN table
                      ELSE Append(table, Row(site.site_name, site.customer_site,
                                             "Start Site")),
                      Tail(sites))

\* the continuation without frm.clear_table
HandleSitesKeepsRows(f, r) ==
    IF ~IsNone(r) /\ Len(Get(r)) > 0
       THEN [f EXCEPT !.site_actions = AddSites(f.site_actions, Get(r)),
                      !.saves = @ + 1]
       ELSE [f EXCEPT !.alerts = Append(@, AlertNoSites)]

\* the continuation clearing the table before it tests the list
HandleSitesClearsFirst(f, r) ==
    IF ~IsNone(r) /\ Len(Get(r)) > 0
       THEN [f EXCEPT !.site_actions = AddSites(<<>>, Get(r)),
                      !.saves = @ + 1]
       ELSE [f EXCEPT !.site_actions = <<>>,
                      !.alerts = Append(@, AlertNoSites)]

\* .then((r) => ...) of the site-list call, up to the call of frm.save():
\* the same continuation in Refresh Sites and in the instance handler
HandleSites(f, r) ==
    IF ~IsNone(r) /\ Len(Get(r)) > 0
       THEN [f EXCEPT !.site_actions = AddSites(<<>>, Get(r)),
                      !.saves = @ + 1]
       ELSE [f EXCEPT !.alerts = Append(@, AlertNoSites)]

\* frm.save() succeeded: the record is no longer local and the form is
\* refreshed
Saved(f) ==
    LET g == [f EXCEPT !.islocal = FALSE]
    IN  [g EXCEPT !.offered = RefreshButtons(g)]

\* the user selects instance i (or clears the field): instance handler
InstanceChanged(i) ==
    /\ ia # Unloaded
    /\ i # ia.instance
    /\ Len(ia.requests) < MaxActionCalls
    /\ ia' = [ia EXCEPT !.instance = i,
                        !.requests = IF IsNone(i) THEN @
                                     ELSE Append(@, ActionCall("sites", i))]
    /\ UNCHANGED <<siteVars, xa, bulk, cr, dom>>

SelectInstance ==
    \E i \in {None} \cup {Some(x) : x \in Instances} : InstanceChanged(i)

\* the user clicks Refresh Sites
ClickRefreshSites ==
    /\ ia # Unloaded
    /\ "Refresh Sites" \in ia.offered
    /\ Len(ia.requests) < MaxActionCalls
    /\ ia' = [ia EXCEPT !.requests = Append(@, ActionCall("sites", ia.instance))]
    /\ UNCHANGED <<siteVars, xa, bulk, cr, dom>>

\* site-list call k resolves with r.message = r; saveOk is the outcome of
\* the frm.save() that the continuation starts for a non-empty list
SitesAnswered(k, r, saveOk) ==
    /\ ia # Unloaded
    /\ k \in 1..Len(ia.requests)
    /\ ia.requests[k].kind = "sites"
    /\ ia.requests[k].state = "sent"
    /\ r \in SiteReplies(ia.requests[k].instance)
    /\ LET handled == HandleSites([ia EXCEPT !.requests[k].state = "done"], r)
       IN  ia' = IF handled.saves > ia.saves /\ saveOk
                    THEN [Saved(handled) EXCEPT !.alerts = Append(@, AlertSaved)]
                    ELSE handled
    /\ UNCHANGED <<siteVars, xa, bulk, cr, dom>>

SitesResponse ==
    /\ ia # Unloaded
    /\ \E k \in 1..Len(ia.requests), saveOk \in BOOLEAN :
          \E r \in SiteReplies(ia.requests[k].instance) :
             SitesAnswered(k, r, saveOk)

\* site-list call k is rejected: .catch((error) => ...)
SitesRejected(k) ==
    /\ ia # Unloaded
    /\ k \in 1..Len(ia.requests)
    /\ ia.requests[k].kind = "sites"
    /\ ia.requests[k].state = "sent"
    /\ ia' = [ia EXCEPT !.requests[k].state = "rejected",
                        !.alerts = Append(@, AlertSitesFailed)]
    /\ UNCHANGED <<siteVars, xa, bulk, cr, dom>>

SitesFailure ==
    /\ ia # Unloaded
    /\ \E k \in 1..Len(ia.requests) : SitesRejected(k)

\* the user clicks Execute Action
ClickExecute ==
    /\ ia # Unloaded
    /\ "Execute Action" \in ia.offered
    /\ Len(ia.requests) < MaxActionCalls
    /\ ia' = [ia EXCEPT !.requests = Append(@, ActionCall("execute", ia.instance))]
    /\ UNCHANGED <<siteVars, xa, bulk, cr, dom>>

\* execute call k resolves: frm.reload_doc() brings the status the server
\* holds and refreshes the form
ExecuteResolved(k, status) ==
    /\ ia # Unloaded
    /\ k \in 1..Len(ia.requests)
    /\ ia.requests[k].kind = "execute"
    /\ ia.requests[k].state = "sent"
    /\ status \in ActionStatuses
    /\ LET g == [ia EXCEPT !.requests[k].state = "done", !.status = status]
       IN  ia' = [g EXCEPT !.offered = RefreshButtons(g)]
    /\ UNCHANGED <<siteVars, xa, bulk, cr, dom>>

ExecuteResponse ==
    /\ ia # Unloaded
    /\ \E k \in 1..Len(ia.requests), status \in ActionStatuses :
          ExecuteResolved(k, status)

\* execute call k is rejected: the promise has no catch, nothing runs
ExecuteRejected ==
    /\ ia # Unloaded
    /\ \E k \in 1..Len(ia.requests) :
          /\ ia.requests[k].kind = "execute"
          /\ ia.requests[k].state = "sent"
          /\ ia' = [ia EXCEPT !.requests[k].state = "rejected"]
    /\ UNCHANGED <<siteVars, xa, bulk, cr, dom>>

\* frm.doc.execution_log + '\nAction cancelled by user.': an undefined log
\* is converted to the text 'undefined'
LogPlusCancelLine(log) ==
    (IF IsNone(log) THEN <<"undefined">> ELSE Get(log)) \o CancelLine

\* the user clicks Cancel Action; saveOk is the outcome of frm.save()
CancelAction(saveOk) ==
    /\ ia # Unloaded
    /\ "Cancel Action" \in ia.offered
    /\ ia.saves < MaxSaves
    /\ LET g == [ia EXCEPT !.status = "Cancelled",
                           !.end_time = Some("now_datetime"),
                           !.execution_log = Some(LogPlusCancelLine(@)),
                           !.saves = @ + 1]
       IN  ia' = IF saveOk THEN Saved(g) ELSE g
    /\ UNCHANGED <<siteVars, xa, bulk, cr, dom>>

ClickCancel == \E saveOk \in BOOLEAN : CancelAction(saveOk)

NextAction ==
    \/ SelectInstance
    \/ ClickRefreshSites
    \/ SitesResponse
    \/ SitesFailure
    \/ ClickExecute
    \/ ExecuteResponse
    \/ ExecuteRejected
    \/ ClickCancel

SpecAction == InitAction /\ [][NextAction]_vars

(***************************************************************************)
(* The Instance Action list view: Execute All Pending.                     *)
(***************************************************************************)

\* bound: clicks on Execute All Pending
MaxExecuteAll == 2

\* r.message of the get_list query for status 'Pending': absent, or the
\* names of the pending Instance Actions
PendingReplies == {None, Some(<<>>), Some(<<"IA-1">>), Some(<<"IA-1", "IA-2">>)}

ExecuteMethod == "execute_instance_action"
MsgAllExecuted == "All pending actions have been executed"

InitExecuteAll ==
    /\ SiteIdle
    /\ xa = [clicks |-> 0, prompts |-> 0, declined |-> 0, queries |-> 0,
             batches |-> <<>>, msgprints |-> <<>>, refreshes |-> 0]
    /\ ia = Unloaded /\ bulk = Unloaded /\ cr = Unloaded
    /\ dom = Unloaded

\* the menu item: execute_all_pending_actions() opens the confirmation
ClickExecuteAll ==
    /\ xa # Unloaded
    /\ xa.clicks < MaxExecuteAll
    /\ xa' = [xa EXCEPT !.clicks = @ + 1, !.prompts = @ + 1]
    /\ UNCHANGED <<siteVars, ia, bulk, cr, dom>>

\* the user declines: frappe.confirm was given no continuation for it
ExecuteAllNo ==
    /\ xa # Unloaded
    /\ xa.prompts > 0
    /\ xa' = [xa EXCEPT !.prompts = @ - 1, !.declined = @ + 1]
    /\ UNCHANGED <<siteVars, ia, bulk, cr, dom>>

\* the user confirms: the get_list query for status 'Pending' is sent
ExecuteAllYes ==
    /\ xa # Unloaded
    /\ xa.prompts > 0
    /\ xa' = [xa EXCEPT !.prompts = @ - 1, !.queries = @ + 1]
    /\ UNCHANGED <<siteVars, ia, bulk, cr, dom>>

\* a combinator fulfilled when every call is settled, resolved or rejected
AllSettled(batch) ==
    \A j \in 1..Len(batch.states) : batch.states[j] # "sent"

\* Promise.all(promises) is fulfilled when every call is resolved, also
\* when there is no call
AllResolved(batch) ==
    \A j \in 1..Len(batch.states) : batch.states[j] = "ok"

\* .then of Promise.all: msgprint, then frappe.listview.refresh(), which the
\* script reaches through a global it does not define itself: the refresh
\* is done (refreshOk) or the access throws after the message
Announce(x, b, refreshOk) ==
    IF AllResolved(x.batches[b]) /\ ~x.batches[b].announced
       THEN [x EXCEPT !.batches[b].announced = TRUE,
                      !.msgprints = Append(@, MsgAllExecuted),
                      !.refreshes = IF refreshOk THEN @ + 1 ELSE @]
       ELSE x

\* the query is answered with r.message = r: one execute call per name
PendingListed(r, refreshOk) ==
    /\ xa # Unloaded
    /\ xa.queries > 0
    /\ r \in PendingReplies
    /\ LET x == [xa EXCEPT !.queries = @ - 1]
       IN  xa' = IF IsNone(r) THEN x
                 ELSE Announce(
                         [x EXCEPT !.batches = Append(@,
                             [method |-> ExecuteMethod,
                              names |-> Get(r),
                              states |-> [j \in 1..Len(Get(r)) |-> "sent"],
                              announced |-> FALSE])],
                         Len(x.batches) + 1, refreshOk)
    /\ UNCHANGED <<siteVars, ia, bulk, cr, dom>>

PendingResponse ==
    \E r \in PendingReplies, refreshOk \in BOOLEAN : PendingListed(r, refreshOk)

\* the query fails: frappe.call was given no error handler
PendingQueryFailed ==
    /\ xa # Unloaded
    /\ xa.queries > 0
    /\ xa' = [xa EXCEPT !.queries = @ - 1]
    /\ UNCHANGED <<siteVars, ia, bulk, cr, dom>>

\* execute call j of batch b resolves (ok) or is rejected
ExecuteSettled(b, j, ok, refreshOk) ==
    /\ xa # Unloaded
    /\ b \in 1..Len(xa.batches)
    /\ j \in 1..Len(xa.batches[b].states)
    /\ xa.batches[b].states[j] = "sent"
    /\ xa' = Announce([xa EXCEPT !.batches[b].states[j] =
                                    IF ok THEN "ok" ELSE "rejected"],
                      b, refreshOk)
    /\ UNCHANGED <<siteVars, ia, bulk, cr, dom>>

ExecuteSettle ==
    /\ xa # Unloaded
    /\ \E b \in 1..Len(xa.batches), ok \in BOOLEAN, refreshOk \in BOOLEAN :
          \E j \in 1..Len(xa.batches[b].states) :
             ExecuteSettled(b, j, ok, refreshOk)

NextExecuteAll ==
    \/ ClickExecuteAll
    \/ ExecuteAllNo
    \/ ExecuteAllYes
    \/ PendingResponse
    \/ PendingQueryFailed
    \/ ExecuteSettle

SpecExecuteAll == InitExecuteAll /\ [][NextExecuteAll]_vars

(***************************************************************************)
(* The Customer Request list view: Bulk Update Status.                     *)
(***************************************************************************)

\* bounds: clicks on the menu item, clicks on Update
MaxBulkClicks == 2
MaxBulkUpdates == 1

RequestStatuses == {"Pending", "Approved", "Rejected"}
\* listview.get_checked_items(): the names of the checked requests
Selections == {<<>>, <<"CR-1">>, <<"CR-1", "CR-2">>}
\* the values of the dialog: status is required, admin_notes may be empty
BulkValues == [status : RequestStatuses, admin_notes : {None, Some("note")}]

MsgSelectOne == <<"Please select at least one request">>
MsgUpdated(k) == <<"Status updated for {0} requests", k>>
UpdateMethod == "api.customer_request.update_request_status"

InitBulk ==
    /\ SiteIdle
    /\ bulk = [clicks |-> 0, msgprints |-> <<>>, dialogs |-> <<>>,
               batches |-> <<>>, refreshes |-> 0]
    /\ ia = Unloaded /\ xa = Unloaded /\ cr = Unloaded
    /\ dom = Unloaded

\* the menu item with the requests `selected` checked
BulkUpdateStatus(selected) ==
    /\ bulk # Unloaded
    /\ bulk.clicks < MaxBulkClicks
    /\ bulk' = IF Len(selected) = 0
                  THEN [bulk EXCEPT !.clicks = @ + 1,
                                    !.msgprints = Append(@, MsgSelectOne)]
                  ELSE [bulk EXCEPT !.clicks = @ + 1,
                                    !.dialogs = Append(@,
                                       [selected |-> selected, visible |-> TRUE])]
    /\ UNCHANGED <<siteVars, ia, xa, cr, dom>>

ClickBulkUpdate == \E selected \in Selections : BulkUpdateStatus(selected)

\* a map that sends the call of the first selected request only
BulkCallsFirstOnly(selected, values) ==
    [j \in 1..1 |->
        [method |-> UpdateMethod, name |-> selected[j],
         status |-> values.status, admin_notes |-> values.admin_notes]]

\* selected_docs.map(doc => frappe.call(...)): the calls of one Update click
BulkCalls(selected, values) ==
    [j \in 1..Len(selected) |->
        [method |-> UpdateMethod, name |-> selected[j],
         status |-> values.status, admin_notes |-> values.admin_notes]]

\* .then of Promise.all: the message, listview.refresh() and d.hide()
BulkAnnounce(x, b) ==
    IF AllResolved(x.batches[b]) /\ ~x.batches[b].announced
       THEN [x EXCEPT !.batches[b].announced = TRUE,
                      !.msgprints = Append(@,
                         MsgUpdated(Len(x.dialogs[x.batches[b].dialog].selected))),
                      !.refreshes = @ + 1,
                      !.dialogs[x.batches[b].dialog].visible = FALSE]
       ELSE x

\* the user clicks Update in dialog d with the values chosen
PrimaryAction(d, values) ==
    /\ bulk # Unloaded
    /\ d \in 1..Len(bulk.dialogs)
    /\ bulk.dialogs[d].visible
    /\ Len(bulk.batches) < MaxBulkUpdates
    /\ LET sent == BulkCalls(bulk.dialogs[d].selected, values)
       IN  bulk' = [bulk EXCEPT !.batches = Append(@,
                       [dialog |-> d, calls |-> sent,
                        states |-> [j \in 1..Len(sent) |-> "sent"],
                        announced |-> FALSE])]
    /\ UNCHANGED <<siteVars, ia, xa, cr, dom>>

ClickUpdate ==
    /\ bulk # Unloaded
    /\ \E d \in 1..Len(bulk.dialogs), values \in BulkValues :
          PrimaryAction(d, values)

\* update call j of batch b resolves (ok) or is rejected
UpdateSettled(b, j, ok) ==
    /\ bulk # Unloaded
    /\ b \in 1..Len(bulk.batches)
    /\ j \in 1..Len(bulk.batches[b].states)
    /\ bulk.batches[b].states[j] = "sent"
    /\ bulk' = BulkAnnounce([bulk EXCEPT !.batches[b].states[j] =
                                            IF ok THEN "ok" ELSE "rejected"], b)
    /\ UNCHANGED <<siteVars, ia, xa, cr, dom>>

UpdateSettle ==
    /\ bulk # Unloaded
    /\ \E b \in 1..Len(bulk.batches), ok \in BOOLEAN :
          \E j \in 1..Len(bulk.batches[b].states) : UpdateSettled(b, j, ok)

NextBulk ==
    \/ ClickBulkUpdate
    \/ ClickUpdate
    \/ UpdateSettle

SpecBulk == InitBulk /\ [][NextBulk]_vars

(***************************************************************************)
(* The Customer Request form: refresh with its existence check, the status *)
(* handler with the delayed check_and_create_site, create_customer_site.   *)
(* The in-flight calls, timers and prompts of the form are counted; the    *)
(* server's side is whether a Customer Site exists for the request.        *)
(***************************************************************************)

\* bounds: status edits and saves by the user, clicks on Create Customer Site
MaxRequestEdits == 2
MaxCreateClicks == 1

\* frm.doc.__unsaved: undefined, 0 or 1
UnsavedValues == {None, Some(0), Some(1)}

ViewButtons == {"View Customer Site", "Open Site"}
CreateButton == "Create Customer Site"

AlertCreating == [indicator |-> "blue", message |-> "Creating Customer Site..."]
AlertSiteCreated ==
    [indicator |-> "green", message |-> "Customer Site created successfully!"]
MsgCreateFailed ==
    [indicator |-> "red", message |-> "Failed to create Customer Site"]
MsgCreateError ==
    [indicator |-> "red",
     message |-> "An error occurred while creating Customer Site"]

\* Customer Request refresh: the custom buttons of the form are rebuilt, and
\* the existence check is sent when the status is 'Approved'
RefreshRequest(c) ==
    [c EXCEPT !.buttons = {},
              !.rSent = IF c.status = "Approved" THEN @ + 1 ELSE @]

RequestForm(status, islocal, exists) ==
    RefreshRequest(
       [status |-> status, islocal |-> islocal, unsaved |-> None,
        buttons |-> {}, siteExists |-> exists,
        rSent |-> 0, rFound |-> 0, rNone |-> 0,
        timers |-> 0, aSent |-> 0, aFound |-> 0, aNone |-> 0,
        autoPrompts |-> 0, createPrompts |-> 0, declined |-> 0,
        viewPrompts |-> 0,
        rpcSent |-> 0, rpcOk |-> 0, rpcFail |-> 0, issued |-> 0,
        msgs |-> <<>>, reloads |-> 0, edits |-> 0, clicks |-> 0])

InitRequest ==
    /\ SiteIdle
    /\ cr \in {RequestForm(s, l, e) :
                  s \in RequestStatuses, l \in BOOLEAN, e \in BOOLEAN}
    /\ ia = Unloaded /\ xa = Unloaded /\ bulk = Unloaded
    /\ dom = Unloaded

\* the server evaluates an existence check of refresh
RefreshCheckServed ==
    /\ cr # Unloaded
    /\ cr.rSent > 0
    /\ cr' = IF cr.siteExists
                THEN [cr EXCEPT !.rSent = @ - 1, !.rFound = @ + 1]
                ELSE [cr EXCEPT !.rSent = @ - 1, !.rNone = @ + 1]
    /\ UNCHANGED <<siteVars, ia, xa, bulk, dom>>

\* the callback adding Create Customer Site next to the view buttons
RefreshCheckCallbackAddsCreate(c, found) ==
    IF found
       THEN [c EXCEPT !.rFound = @ - 1,
                      !.buttons = @ \cup ViewButtons \cup {CreateButton}]
       ELSE [c EXCEPT !.rNone = @ - 1, !.buttons = @ \cup {CreateButton}]

\* callback of the existence check of refresh: found is
\* response.message.length > 0
RefreshCheckCallback(c, found) ==
    IF found
       THEN [c EXCEPT !.rFound = @ - 1, !.buttons = @ \cup ViewButtons]
       ELSE [c EXCEPT !.rNone = @ - 1, !.buttons = @ \cup {CreateButton}]

RefreshCheckAnswered(found) ==
    /\ cr # Unloaded
    /\ IF found THEN cr.rFound > 0 ELSE cr.rNone > 0
    /\ cr' = RefreshCheckCallback(cr, found)
    /\ UNCHANGED <<siteVars, ia, xa, bulk, dom>>

RefreshCheckResponse == \E found \in BOOLEAN : RefreshCheckAnswered(found)

\* the existence check of refresh fails: error only logs to the console
RefreshCheckFailed ==
    /\ cr # Unloaded
    /\ cr.rSent > 0
    /\ cr' = [cr EXCEPT !.rSent = @ - 1]
    /\ UNCHANGED <<siteVars, ia, xa, bulk, dom>>

\* status handler: the test under which setTimeout is called
StatusStartsTimer(c) ==
    c.status = "Approved" /\ ~c.islocal /\ c.unsaved = Some(0)

\* the status field changes to s; u is the value of __unsaved the form has
\* when the handler runs
StatusChanged(s, u) ==
    /\ cr # Unloaded
    /\ cr.edits < MaxRequestEdits
    /\ s # cr.status
    /\ LET c == [cr EXCEPT !.status = s, !.unsaved = u, !.edits = @ + 1]
       IN  cr' = IF StatusStartsTimer(c) THEN [c EXCEPT !.timers = @ + 1] ELSE c
    /\ UNCHANGED <<siteVars, ia, xa, bulk, dom>>

EditStatus ==
    \E s \in RequestStatuses, u \in UnsavedValues : StatusChanged(s, u)

\* the user saves the form: the record is stored and the form refreshed
SaveRequest ==
    /\ cr # Unloaded
    /\ cr.edits < MaxRequestEdits
    /\ cr' = RefreshRequest([cr EXCEPT !.islocal = FALSE, !.unsaved = Some(0),
                                       !.edits = @ + 1])
    /\ UNCHANGED <<siteVars, ia, xa, bulk, dom>>

\* the timer of the status handler fires: check_and_create_site sends its
\* existence check
TimerFires ==
    /\ cr # Unloaded
    /\ cr.timers > 0
    /\ cr' = [cr EXCEPT !.timers = @ - 1, !.aSent = @ + 1]
    /\ UNCHANGED <<siteVars, ia, xa, bulk, dom>>

\* the server evaluates an existence check of check_and_create_site
AutoCheckServed ==
    /\ cr # Unloaded
    /\ cr.aSent > 0
    /\ cr' = IF cr.siteExists
                THEN [cr EXCEPT !.aSent = @ - 1, !.aFound = @ + 1]
                ELSE [cr EXCEPT !.aSent = @ - 1, !.aNone = @ + 1]
    /\ UNCHANGED <<siteVars, ia, xa, bulk, dom>>

\* callback of check_and_create_site: the automatic prompt is raised when
\* no Customer Site was found
AutoCheckAnswered(found) ==
    /\ cr # Unloaded
    /\ IF found THEN cr.aFound > 0 ELSE cr.aNone > 0
    /\ cr' = IF found THEN [cr EXCEPT !.aFound = @ - 1]
             ELSE [cr EXCEPT !.aNone = @ - 1, !.autoPrompts = @ + 1]
    /\ UNCHANGED <<siteVars, ia, xa, bulk, dom>>

AutoCheckResponse == \E found \in BOOLEAN : AutoCheckAnswered(found)

\* the existence check of check_and_create_site fails: error only logs
AutoCheckFailed ==
    /\ cr # Unloaded
    /\ cr.aSent > 0
    /\ cr' = [cr EXCEPT !.aSent = @ - 1]
    /\ UNCHANGED <<siteVars, ia, xa, bulk, dom>>

\* the automatic prompt is answered: yes calls create_customer_site, which
\* opens its own confirmation
AutoPromptAnswered(yes) ==
    /\ cr # Unloaded
    /\ cr.autoPrompts > 0
    /\ cr' = IF yes THEN [cr EXCEPT !.autoPrompts = @ - 1,
                                    !.createPrompts = @ + 1]
             ELSE [cr EXCEPT !.autoPrompts = @ - 1]
    /\ UNCHANGED <<siteVars, ia, xa, bulk, dom>>

AnswerAutoPrompt == \E yes \in BOOLEAN : AutoPromptAnswered(yes)

\* the user clicks Create Customer Site: create_customer_site(frm)
ClickCreateCustomerSite ==
    /\ cr # Unloaded
    /\ CreateButton \in cr.buttons
    /\ cr.clicks < MaxCreateClicks
    /\ cr' = [cr EXCEPT !.clicks = @ + 1, !.createPrompts = @ + 1]
    /\ UNCHANGED <<siteVars, ia, xa, bulk, dom>>

\* a decline that sends the call all the same
CreatePromptNoSends ==
    /\ cr # Unloaded
    /\ cr.createPrompts > 0
    /\ cr' = [cr EXCEPT !.createPrompts = @ - 1, !.declined = @ + 1,
                        !.rpcSent = @ + 1, !.issued = @ + 1]
    /\ UNCHANGED <<siteVars, ia, xa, bulk, dom>>

\* the confirmation of create_customer_site is declined
CreatePromptNo ==
    /\ cr # Unloaded
    /\ cr.createPrompts > 0
    /\ cr' = [cr EXCEPT !.createPrompts = @ - 1, !.declined = @ + 1]
    /\ UNCHANGED <<siteVars, ia, xa, bulk, dom>>

\* the confirmation of create_customer_site is accepted: the blue alert is
\* raised and the create_customer_site call is sent
CreatePromptYes ==
    /\ cr # Unloaded
    /\ cr.createPrompts > 0
    /\ cr' = [cr EXCEPT !.createPrompts = @ - 1,
                        !.msgs = Append(@, AlertCreating),
                        !.rpcSent = @ + 1, !.issued = @ + 1]
    /\ UNCHANGED <<siteVars, ia, xa, bulk, dom>>

\* the server handles a create_customer_site call: it creates the site and
\* answers success = true, or answers success = false
CreateServed(ok) ==
    /\ cr # Unloaded
    /\ cr.rpcSent > 0
    /\ cr' = IF ok THEN [cr EXCEPT !.rpcSent = @ - 1, !.rpcOk = @ + 1,
                                   !.siteExists = TRUE]
             ELSE [cr EXCEPT !.rpcSent = @ - 1, !.rpcFail = @ + 1]
    /\ UNCHANGED <<siteVars, ia, xa, bulk, dom>>

ServeCreate == \E ok \in BOOLEAN : CreateServed(ok)

\* callback of create_customer_site for a success = true answer: the green
\* alert, frm.reload_doc() with the status the server holds and the refresh,
\* and the prompt to view the site when the answer names it
CreateSucceeded(status, named) ==
    /\ cr # Unloaded
    /\ cr.rpcOk > 0
    /\ status \in RequestStatuses
    /\ cr' = RefreshRequest([cr EXCEPT !.rpcOk = @ - 1,
                                       !.msgs = Append(@, AlertSiteCreated),
                                       !.reloads = @ + 1,
                                       !.status = status,
                                       !.islocal = FALSE,
                                       !.unsaved = None,
                                       !.viewPrompts = IF named THEN @ + 1
                                                       ELSE @])
    /\ UNCHANGED <<siteVars, ia, xa, bulk, dom>>

CreateSuccessResponse ==
    \E status \in RequestStatuses, named \in BOOLEAN :
       CreateSucceeded(status, named)

\* callback of create_customer_site for a success = false answer
CreateFailed ==
    /\ cr # Unloaded
    /\ cr.rpcFail > 0
    /\ cr' = [cr EXCEPT !.rpcFail = @ - 1, !.msgs = Append(@, MsgCreateFailed)]
    /\ UNCHANGED <<siteVars, ia, xa, bulk, dom>>

\* the create_customer_site call is rejected: the error handler
CreateRejected ==
    /\ cr # Unloaded
    /\ cr.rpcSent > 0
    /\ cr' = [cr EXCEPT !.rpcSent = @ - 1, !.msgs = Append(@, MsgCreateError)]
    /\ UNCHANGED <<siteVars, ia, xa, bulk, dom>>

\* another session creates the Customer Site of the request
OtherSessionCreates ==
    /\ cr # Unloaded
    /\ ~cr.siteExists
    /\ cr' = [cr EXCEPT !.siteExists = TRUE]
    /\ UNCHANGED <<siteVars, ia, xa, bulk, dom>>

NextRequest ==
    \/ RefreshCheckServed
    \/ RefreshCheckResponse
    \/ RefreshCheckFailed
    \/ EditStatus
    \/ SaveRequest
    \/ TimerFires
    \/ AutoCheckServed
    \/ AutoCheckResponse
    \/ AutoCheckFailed
    \/ AnswerAutoPrompt
    \/ ClickCreateCustomerSite
    \/ CreatePromptNo
    \/ CreatePromptYes
    \/ ServeCreate
    \/ CreateSuccessResponse
    \/ CreateFailed
    \/ CreateRejected
    \/ OtherSessionCreates

SpecRequest == InitRequest /\ [][NextRequest]_vars

(***************************************************************************)
(* The Customer Request form: the custom_domain field, which refresh makes *)
(* read-only for users without an administrative role, the preview of the  *)
(* full domain, and the suggestion the customer_name handler derives.      *)
(* Strings are sequences of characters.                                    *)
(***************************************************************************)

\* bounds: changes of a field and saves by the user, length of a typed name
MaxNameEdits == 2
MaxNameLen == 2

\* substring(0, 20)
DomainLimit == 20

AdminRoles == {"System Manager", "Administrator"}
\* the roles a session can hold: every user holds a non-administrative role
RoleSets == {{"Sales User"} \cup a : a \in SUBSET AdminRoles}
has_role(roles, role) == role \in roles

\* the classes of characters the handler tells apart, and the characters a
\* typed name is made of: an upper-case and a lower-case letter, a blank,
\* the hyphen, and a character that is neither letter, digit nor hyphen
UpperChars == {"A"}
LowerChars == {"a", "b"}
DigitChars == {"7"}
SpaceChars == {" ", "\t"}
NameChars == {"A", "b", " ", "-", "!"}

\* String.prototype.toLowerCase, per character
ToLowerChar(c) == IF c = "A" THEN "a" ELSE c
toLowerCase(s) == [i \in 1..Len(s) |-> ToLowerChar(s[i])]

RECURSIVE DropSpaces(_)
\* the rest of s after its leading whitespace
DropSpaces(s) ==
    IF s # <<>> /\ Head(s) \in SpaceChars THEN DropSpaces(Tail(s)) ELSE s

RECURSIVE ReplaceSpaceRuns(_)
\* replace(/\s+/g, '-'): every maximal run of whitespace becomes one hyphen
ReplaceSpaceRuns(s) ==
    IF s = <<>> THEN <<>>
    ELSE IF Head(s) \in SpaceChars
       THEN <<"-">> \o ReplaceSpaceRuns(DropSpaces(Tail(s)))
    ELSE <<Head(s)>> \o ReplaceSpaceRuns(Tail(s))

\* replace(/[^a-zA-Z0-9-]/g, ''): only letters, digits and hyphens are kept
IsDomainChar(c) ==
    c \in LowerChars \cup UpperChars \cup DigitChars \cup {"-"}
StripOthers(s) == SelectSeq(s, IsDomainChar)

\* substring(0, n)
Substring0(s, n) == SubSeq(s, 1, IF Len(s) < n THEN Len(s) ELSE n)

\* suggested_domain of the customer_name handler
SuggestedDomain(name) ==
    Substring0(StripOthers(ReplaceSpaceRuns(toLowerCase(name))), DomainLimit)

\* a name longer than the limit of the suggestion
LongName == [i \in 1..(DomainLimit + 2) |-> IF i % 2 = 1 THEN "A" ELSE "7"]

\* the names a user can type
RECURSIVE StringsUpTo(_)
StringsUpTo(n) ==
    IF n = 0 THEN {<<>>}
    ELSE LET shorter == StringsUpTo(n - 1)
         IN  shorter \cup {Append(t, c) : t \in shorter, c \in NameChars}
CustomerNames == StringsUpTo(MaxNameLen) \cup {LongName}

DomainSuffix == <<".", "i", "b", "s", "s", "a", "a", "s", ".", "c", "o", "m">>
endsWith(s, suffix) ==
    /\ Len(s) >= Len(suffix)
    /\ SubSeq(s, Len(s) - Len(suffix) + 1, Len(s)) = suffix

\* the values of custom_domain a record is stored with or a user types
StoredDomains == {<<>>, <<"a", "b">>, <<"a", "b">> \o DomainSuffix}

\* show_domain_preview: the old preview is removed, and the full domain is
\* shown when custom_domain is not empty
ShowDomainPreview(d) ==
    [d EXCEPT !.preview =
        IF d.custom_domain = <<>> THEN None
        ELSE IF endsWith(d.custom_domain, DomainSuffix)
           THEN Some(d.custom_domain)
        ELSE Some(d.custom_domain \o DomainSuffix)]

\* refresh, for the custom_domain field: the preview when the field has a
\* value, read_only for a user with neither administrative role
RefreshDomain(d) ==
    LET shown == IF d.custom_domain # <<>> THEN ShowDomainPreview(d) ELSE d
    IN  IF /\ ~has_role(d.roles, "System Manager")
           /\ ~has_role(d.roles, "Administrator")
           THEN [shown EXCEPT !.readOnly = TRUE]
           ELSE shown

DomainForm(roles, name, domain) ==
    RefreshDomain([roles |-> roles, customer_name |-> name,
                   custom_domain |-> domain, readOnly |-> FALSE,
                   preview |-> None, suggested |-> 0, edits |-> 0])

InitDomain ==
    /\ SiteIdle
    /\ dom \in {DomainForm(r, n, d) :
                   r \in RoleSets, n \in {<<>>, <<"A", "b">>},
                   d \in StoredDomains}
    /\ ia = Unloaded /\ xa = Unloaded /\ bulk = Unloaded /\ cr = Unloaded

\* the customer_name handler that suggests whatever custom_domain holds
CustomerNameHandlerOverwrites(d) ==
    LET suggested_domain == SuggestedDomain(d.customer_name)
    IN  IF d.customer_name # <<>> /\ suggested_domain # <<>>
           THEN ShowDomainPreview([d EXCEPT !.custom_domain = suggested_domain,
                                            !.suggested = @ + 1])
           ELSE d

\* the customer_name handler: frm.set_value('custom_domain', suggested_domain)
\* with the custom_domain handler it triggers, then show_domain_preview
CustomerNameHandler(d) ==
    LET suggested_domain == SuggestedDomain(d.customer_name)
    IN  IF /\ d.customer_name # <<>> /\ d.custom_domain = <<>>
           /\ suggested_domain # <<>>
           THEN ShowDomainPreview([d EXCEPT !.custom_domain = suggested_domain,
                                            !.suggested = @ + 1])
           ELSE d

\* the user changes customer_name to name
CustomerNameChanged(name) ==
    /\ dom # Unloaded
    /\ dom.edits < MaxNameEdits
    /\ name # dom.customer_name
    /\ dom' = CustomerNameHandler([dom EXCEPT !.customer_name = name,
                                              !.edits = @ + 1])
    /\ UNCHANGED <<siteVars, ia, xa, bulk, cr>>

EditCustomerName == \E name \in CustomerNames : CustomerNameChanged(name)

\* the user types a value into custom_domain, which the form allows while
\* the field is not read-only: the custom_domain handler shows the preview
CustomDomainChanged(domain) ==
    /\ dom # Unloaded
    /\ dom.edits < MaxNameEdits
    /\ ~dom.readOnly
    /\ domain # dom.custom_domain
    /\ dom' = ShowDomainPreview([dom EXCEPT !.custom_domain = domain,
                                            !.edits = @ + 1])
    /\ UNCHANGED <<siteVars, ia, xa, bulk, cr>>

EditCustomDomain == \E domain \in StoredDomains : CustomDomainChanged(domain)

\* the user saves the form: the form is refreshed
SaveDomainForm ==
    /\ dom # Unloaded
    /\ dom.edits < MaxNameEdits
    /\ dom' = RefreshDomain([dom EXCEPT !.edits = @ + 1])
    /\ UNCHANGED <<siteVars, ia, xa, bulk, cr>>

NextDomain ==
    \/ EditCustomerName
    \/ EditCustomDomain
    \/ SaveDomainForm

SpecDomain == InitDomain /\ [][NextDomain]_vars

(***************************************************************************)
(* Properties of the terminal-state detector (the listener).               *)
(***************************************************************************)

\* C1: every delivery of a progress event with progress 100, whatever its
\* message, makes each registered listener reload the record once and raise
\* one green success alert, and hides no dialog.
C1_HundredIsSuccess ==
    [][delivered' # delivered => \A d \in ProgressEvents, stops \in BOOLEAN :
          (d.progress = Some(100) /\ listeners # <<>> /\ Deliver(d, stops)) =>
             /\ reloads' = reloads + Len(listeners)
             /\ Len(alerts') = Len(alerts) + Len(listeners)
             /\ SubSeq(alerts', 1, Len(alerts)) = alerts
             /\ \A j \in (Len(alerts) + 1)..Len(alerts') :
                   alerts'[j] = [indicator |-> "green", message |-> TextCreated]
             /\ Len(sessions') = Len(sessions)
             /\ \A i \in 1..Len(sessions) :
                   sessions'[i].visible = sessions[i].visible]_vars

\* C1 witness: a visible dialog shows 100% with a message containing
\* 'failed', the record was reloaded and the only alert is the green one
C1_Witness ==
    \E i \in 1..Len(sessions) :
       /\ sessions[i].visible
       /\ sessions[i].bar = 100
       /\ sessions[i].text = MsgRetryFailed
       /\ reloads = 1
       /\ alerts = <<[indicator |-> "green", message |-> TextCreated]>>

\* C2: a delivery of a progress event with progress 0 never reloads and
\* hides no dialog; when its message contains 'failed' each listener raises
\* one red alert containing the message, otherwise no alert is raised.
C2_ZeroFailedIsFailure ==
    [][delivered' # delivered => \A d \in ProgressEvents, stops \in BOOLEAN :
          (d.progress = Some(0) /\ listeners # <<>> /\ Deliver(d, stops)) =>
             /\ reloads' = reloads
             /\ doc' = doc
             /\ Len(sessions') = Len(sessions)
             /\ \A i \in 1..Len(sessions) :
                   sessions'[i].visible = sessions[i].visible
             /\ SubSeq(alerts', 1, Len(alerts)) = alerts
             /\ IF ~IsNone(d.message) /\ Includes(Get(d.message), failed)
                   THEN /\ Len(alerts') = Len(alerts) + Len(listeners)
                        /\ \A j \in (Len(alerts) + 1)..Len(alerts') :
                              /\ alerts'[j].indicator = "red"
                              /\ Includes(alerts'[j].message, Get(d.message))
                   ELSE alerts' = alerts]_vars

\* C2 witness: a dialog received a 0% event whose message contains
\* 'failed': one red alert carrying that message, no reload, dialog open
C2_Witness ==
    \E i \in 1..Len(sessions) :
       /\ sessions[i].visible
       /\ sessions[i].bar = 0
       /\ sessions[i].text = MsgRetryFailed
       /\ reloads = 0
       /\ Len(alerts) = 1
       /\ alerts[1].indicator = "red"
       /\ Includes(alerts[1].message, MsgRetryFailed)

\* C3: a delivery of a progress event whose progress is neither 0 nor 100
\* does exactly one presenter update per listener (gauge, status text, one
\* appended log line) and nothing else: no alert, no reload.
C3_OtherIsInProgress ==
    [][delivered' # delivered => \A d \in ProgressEvents, stops \in BOOLEAN :
          (d.progress # Some(0) /\ d.progress # Some(100) /\ Deliver(d, stops)) =>
             /\ alerts' = alerts
             /\ reloads' = reloads
             /\ doc' = doc
             /\ Len(sessions') = Len(sessions)
             /\ \A i \in 1..Len(sessions) :
                   LET p == IF IsNone(d.progress) THEN 0 ELSE Get(d.progress)
                       m == IF IsNone(d.message) THEN EmptyStr ELSE Get(d.message)
                       n == Cardinality({j \in 1..Len(listeners) : listeners[j] = i})
                   IN  IF n = 0 THEN sessions'[i] = sessions[i]
                       ELSE /\ n = 1
                            /\ sessions'[i].bar = p
                            /\ sessions'[i].text = m
                            /\ sessions'[i].visible = sessions[i].visible
                            /\ Len(sessions'[i].log) = Len(sessions[i].log) + 1
                            /\ SubSeq(sessions'[i].log, 1, Len(sessions[i].log))
                                  = sessions[i].log
                            /\ Includes(sessions'[i].log[Len(sessions'[i].log)], m)
      ]_vars

\* C3 witness: a dialog shows 50% with a message containing 'failed', one
\* log line, and neither alert nor reload happened
C3_Witness ==
    \E i \in 1..Len(sessions) :
       /\ sessions[i].bar = 50
       /\ sessions[i].text = MsgRetryFailed
       /\ Len(sessions[i].log) = 1
       /\ alerts = <<>>
       /\ reloads = 0

(***************************************************************************)
(* Properties of the launcher (create_site_with_progress and the start     *)
(* call of start_site_creation).                                           *)
(***************************************************************************)

\* C4: a click on Create Site while custom_domain, instance or package is
\* empty or undefined opens no confirmation prompt, no dialog, registers no
\* listener and issues no call.
C4_MissingFieldAborts ==
    [][(/\ Falsy(doc.custom_domain) \/ Falsy(doc.instance) \/ Falsy(doc.package)
        /\ CreateSiteWithProgress)
          => UNCHANGED <<prompts, sessions, listeners, calls>>]_vars

\* C4 witness: a click was refused for the package alone (the last check),
\* and nothing was opened or sent
C4_Witness ==
    /\ msgprints # <<>>
    /\ Falsy(doc.package) /\ ~Falsy(doc.custom_domain) /\ ~Falsy(doc.instance)
    /\ prompts = 0 /\ sessions = <<>> /\ listeners = <<>> /\ calls = <<>>

\* C5: a click on Create Site with a required field missing raises exactly
\* one msgprint and nothing else, and its message is that of the first
\* missing field in the order custom_domain, instance, package.
C5_FirstMissingFieldNamed ==
    [][(/\ Falsy(doc.custom_domain) \/ Falsy(doc.instance) \/ Falsy(doc.package)
        /\ CreateSiteWithProgress)
          => LET order == <<"custom_domain", "instance", "package">>
                 text == [custom_domain |-> MsgDomainRequired,
                          instance |-> MsgInstanceRequired,
                          package |-> MsgPackageRequired]
                 first == CHOOSE i \in 1..3 :
                             /\ Falsy(doc[order[i]])
                             /\ \A j \in 1..(i - 1) : ~Falsy(doc[order[j]])
             IN  /\ msgprints' = Append(msgprints, text[order[first]])
                 /\ alerts' = alerts]_vars

\* C5 witness: all three fields are missing and the one message raised is
\* the one of custom_domain
C5_Witness ==
    /\ Falsy(doc.custom_domain) /\ Falsy(doc.instance) /\ Falsy(doc.package)
    /\ msgprints = <<MsgDomainRequired>>

\* C6: a declined confirmation opens no dialog, registers no listener,
\* issues no call and shows no message or alert; a dialog is opened and a
\* call issued only by a step that closes a prompt without declining it.
C6_DeclineAbortsSilently ==
    [][/\ declined' # declined =>
             UNCHANGED <<sessions, listeners, calls, msgprints, alerts, reloads>>
       /\ (Len(sessions') > Len(sessions) \/ Len(calls') > Len(calls)
           \/ Len(listeners') > Len(listeners)) =>
             /\ prompts > 0
             /\ prompts' = prompts - 1
             /\ declined' = declined]_vars

\* C6 witness: a prompt was declined and nothing has been opened,
\* sent or shown
C6_Witness ==
    /\ declined > 0
    /\ prompts = 0
    /\ sessions = <<>> /\ listeners = <<>> /\ calls = <<>>
    /\ msgprints = <<>> /\ alerts = <<>>

\* C7, the ordering alone: every issued start call has the listener of its
\* dialog registered (start_site_creation registers it before frappe.call).
C7_ListenerRegistered ==
    \A k \in 1..Len(calls) :
       \E j \in 1..Len(listeners) : listeners[j] = calls[k].session

\* C7: every issued start call has the listener of its dialog registered,
\* and every progress event delivered from then on is rendered into that
\* dialog (one more log line).
C7_ListenerBeforeStartCall ==
    [][/\ \A k \in 1..Len(calls') :
             \E j \in 1..Len(listeners') : listeners'[j] = calls'[k].session
       /\ delivered' # delivered =>
             \A k \in 1..Len(calls) :
                Len(sessions'[calls[k].session].log)
                   = Len(sessions[calls[k].session].log) + 1]_vars

\* C8: a successful acknowledgment shows 5% and the 'started' text in the
\* dialog of its call and does nothing else; the record is reloaded and the
\* success alert raised only by the delivery of an event with progress 100.
C8_AckIsNotTerminal ==
    [][/\ calls' # calls =>
             \A k \in 1..Len(calls), r \in Responses :
                (~IsNone(r) /\ Get(r).success /\ Ack(k, r)) =>
                   /\ sessions' = [sessions EXCEPT ![calls[k].session] =
                         [@ EXCEPT !.bar = 5, !.text = TextStarted,
                                   !.log = Append(@, LogEntry(TextStarted))]]
                   /\ UNCHANGED <<alerts, reloads, doc>>
       /\ (\/ reloads' # reloads
           \/ /\ Len(alerts') > Len(alerts)
              /\ alerts'[Len(alerts')].indicator = "green") =>
             \E d \in ProgressEvents :
                d.progress = Some(100) /\ Deliver(d, TRUE)]_vars

\* C8 witness: a call was acknowledged with success, its dialog shows 5%
\* 'started', and no reload or alert happened
C8_Witness ==
    \E k \in 1..Len(calls) :
       /\ calls[k].state = "done"
       /\ ~IsNone(calls[k].response) /\ Get(calls[k].response).success
       /\ sessions[calls[k].session].bar = 5
       /\ sessions[calls[k].session].text = TextStarted
       /\ reloads = 0 /\ alerts = <<>>

\* C9: an acknowledgment with success = false and a message shows 0% and a
\* failure text carrying the message in the dialog of its call, raises
\* exactly one red alert, reloads nothing and leaves the dialog open; a
\* dialog is hidden only by its Close button.
C9_AckFailure ==
    [][/\ calls' # calls =>
             \A k \in 1..Len(calls), r \in Responses :
                (/\ ~IsNone(r) /\ ~Get(r).success /\ ~Falsy(Get(r).message)
                 /\ Ack(k, r)) =>
                   LET s == calls[k].session
                   IN  /\ sessions'[s].bar = 0
                       /\ Includes(sessions'[s].text, Get(Get(r).message))
                       /\ sessions'[s].text[1] = TextStartFailedPrefix[1]
                       /\ sessions'[s].visible = sessions[s].visible
                       /\ Len(alerts') = Len(alerts) + 1
                       /\ SubSeq(alerts', 1, Len(alerts)) = alerts
                       /\ alerts'[Len(alerts')].indicator = "red"
                       /\ Includes(alerts'[Len(alerts')].message,
                                   Get(Get(r).message))
                       /\ UNCHANGED <<reloads, doc>>
       /\ \A i \in 1..Len(sessions) :
             (sessions[i].visible /\ ~sessions'[i].visible) => Close(i)]_vars

\* C9 witness: a call was answered success = false with 'quota', its dialog
\* is still open at 0% with the failure text, and the one alert is red
C9_Witness ==
    \E k \in 1..Len(calls) :
       /\ calls[k].state = "done"
       /\ calls[k].response = Some([success |-> FALSE, message |-> Some(MsgQuota)])
       /\ sessions[calls[k].session].visible
       /\ sessions[calls[k].session].bar = 0
       /\ sessions[calls[k].session].text = TextStartFailedPrefix \o MsgQuota
       /\ Len(alerts) = 1 /\ alerts[1].indicator = "red"
       /\ reloads = 0

\* C10: once a start call has failed in transport, the failure is shown:
\* a red alert or the dialog of the call names the failed start.
C10_TransportFailureSurfaced ==
    \A k \in 1..Len(calls) :
       calls[k].state = "failed" =>
          \/ \E j \in 1..Len(alerts) :
                /\ alerts[j].indicator = "red"
                /\ alerts[j].message[1] = TextStartFailedPrefix[1]
          \/ sessions[calls[k].session].text[1] = TextStartFailedPrefix[1]

(***************************************************************************)
(* Properties of the presenter (update_progress) and of the sessions.      *)
(***************************************************************************)

\* C11: the log of every dialog only grows at its end: a step keeps the
\* earlier lines in place and appends at most one line per update; a
\* delivered event appends to the dialog of every listener that ran exactly
\* the line of that event, also when the last line shows the same message.
C11_LogAppendOnly ==
    [][/\ Len(sessions') >= Len(sessions)
       /\ \A i \in 1..Len(sessions) :
             /\ Len(sessions'[i].log) \in
                   {Len(sessions[i].log), Len(sessions[i].log) + 1}
             /\ SubSeq(sessions'[i].log, 1, Len(sessions[i].log))
                   = sessions[i].log
       /\ delivered' # delivered =>
             \A d \in ProgressEvents, stops \in BOOLEAN :
                (/\ listeners # <<>>
                 /\ sessions'[listeners[1]].bar = NumOr0(d.progress)
                 /\ sessions'[listeners[1]].text = StrOr(d.message, EmptyStr)
                 /\ Deliver(d, stops)) =>
                   \A i \in 1..Len(sessions) :
                      LET line == LogEntry(StrOr(d.message, EmptyStr))
                          throws == d.progress = Some(0) /\ IsNone(d.message)
                      IN  \/ sessions'[i].log = Append(sessions[i].log, line)
                          \/ /\ throws /\ stops /\ i > 1
                             /\ sessions'[i].log = sessions[i].log]_vars

\* C11 witness: two events with the same message were rendered into a
\* dialog and its log holds both lines
C11_Witness ==
    \E i \in 1..Len(sessions) :
       /\ delivered = 2
       /\ sessions[i].log
             = <<LogEntry(MsgRetryFailed), LogEntry(MsgRetryFailed)>>

\* C12: on a form with at least one confirmed launch, whatever was closed
\* since, the delivery of one progress event with progress 100 reloads the
\* record exactly once and raises exactly one green success alert.
C12_ReloadExactlyOnce ==
    [][delivered' # delivered => \A d \in ProgressEvents, stops \in BOOLEAN :
          (d.progress = Some(100) /\ listeners # <<>> /\ Deliver(d, stops)) =>
             /\ reloads' = reloads + 1
             /\ alerts' = Append(alerts, GreenAlert)]_vars

\* C13: when every dialog of the form has been closed, the delivery of a
\* progress event with progress 100 still reloads the record and raises the
\* green success alert, once per registered listener.
C13_ReloadNotTiedToVisibility ==
    [][delivered' # delivered => \A d \in ProgressEvents, stops \in BOOLEAN :
          (/\ d.progress = Some(100)
           /\ sessions # <<>>
           /\ \A i \in 1..Len(sessions) : ~sessions[i].visible
           /\ Deliver(d, stops)) =>
             /\ reloads' = reloads + Len(listeners)
             /\ reloads' > reloads
             /\ Len(alerts') > Len(alerts)
             /\ alerts'[Len(alerts')] = GreenAlert
             /\ \A i \in 1..Len(sessions) : ~sessions'[i].visible]_vars

\* C13 witness: the dialog is closed, it holds the line of a progress-100
\* event, the record was reloaded and the green alert raised
C13_Witness ==
    \E i \in 1..Len(sessions) :
       /\ ~sessions[i].visible
       /\ sessions[i].bar = 100
       /\ sessions[i].log = <<LogEntry(MsgDone)>>
       /\ reloads = 1
       /\ alerts = <<GreenAlert>>

\* C14: a step that hides a dialog changes nothing but its visibility: no
\* call is issued or changed, the registered listeners stay as they are, and
\* any event delivered next has the same effects as it would have had
\* without the close; an event delivered while a dialog is hidden still
\* updates the gauge, text and log of the dialog of the first listener.
C14_CloseOnlyHides ==
    [][/\ \A i \in 1..Len(sessions) :
             (sessions[i].visible /\ ~sessions'[i].visible) =>
                /\ sessions' = [sessions EXCEPT ![i].visible = FALSE]
                /\ UNCHANGED <<calls, listeners, doc, buttonOffered, prompts,
                               declined, msgprints, alerts, reloads, delivered>>
                /\ \A d \in ProgressEvents :
                   \A stops \in IF d.progress = Some(0) /\ IsNone(d.message)
                                    THEN BOOLEAN ELSE {TRUE} :
                      LET st0 == [sessions |-> sessions, alerts |-> alerts,
                                  reloads |-> reloads, threw |-> FALSE]
                          st1 == [st0 EXCEPT !.sessions = sessions']
                          open == Dispatch(listeners, d, st0, stops)
                      IN  Dispatch(listeners', d, st1, stops)
                             = [open EXCEPT !.sessions[i].visible = FALSE]
       /\ (/\ delivered' # delivered
           /\ listeners # <<>>
           /\ ~sessions[listeners[1]].visible) =>
             LET i == listeners[1]
             IN  \E d \in ProgressEvents :
                    /\ sessions'[i].bar = NumOr0(d.progress)
                    /\ sessions'[i].text = StrOr(d.message, EmptyStr)
                    /\ sessions'[i].log
                          = Append(sessions[i].log,
                                   LogEntry(StrOr(d.message, EmptyStr)))
                    /\ ~sessions'[i].visible
                    /\ \E stops \in BOOLEAN : Deliver(d, stops)]_vars

\* C14 witness: a closed dialog shows the gauge, text and log line of an
\* in-progress event, its start call is still the only call and its
\* listener is still registered
C14_Witness ==
    \E i \in 1..Len(sessions) :
       /\ ~sessions[i].visible
       /\ sessions[i].bar = 50
       /\ sessions[i].text = MsgRetryFailed
       /\ sessions[i].log = <<LogEntry(MsgRetryFailed)>>
       /\ listeners = <<i>>
       /\ Len(calls) = 1

\* C15: in every reachable state at most one progress dialog of the form is
\* shown.
C15_AtMostOneVisible ==
    Cardinality({i \in 1..Len(sessions) : sessions[i].visible}) <= 1

\* C16: the delivery of a progress event published for another site has on
\* this form the effects of the same event published for its own site: the
\* dialog of every listener shows its progress and message, and when its
\* progress is 100 every listener reloads this form's record and raises the
\* green success alert.
C16_NoTargetFilter ==
    [][delivered' # delivered => \A d \in ProgressEvents, stops \in BOOLEAN :
          (d.site # DocName /\ listeners # <<>> /\ Deliver(d, stops)) =>
             /\ Deliver([d EXCEPT !.site = DocName], stops)
             /\ \A j \in 1..Len(listeners) :
                   /\ sessions'[listeners[j]].bar = NumOr0(d.progress)
                   /\ sessions'[listeners[j]].text = Get(d.message)
                   /\ Len(sessions'[listeners[j]].log)
                         = Len(sessions[listeners[j]].log) + 1
             /\ IF d.progress = Some(100)
                   THEN /\ reloads' = reloads + Len(listeners)
                        /\ Len(alerts') = Len(alerts) + Len(listeners)
                        /\ alerts'[Len(alerts')] = GreenAlert
                   ELSE UNCHANGED <<reloads, alerts, doc>>]_vars

\* C16 witness: the dialog of this form shows 100% with the message of the
\* other site's event, this form's record was reloaded and the green alert
\* raised
C16_Witness ==
    \E i \in 1..Len(sessions) :
       /\ sessions[i].bar = 100
       /\ sessions[i].text = MsgOtherDone
       /\ calls[1].customer_site = DocName
       /\ reloads = 1
       /\ alerts = <<GreenAlert>>

\* C17: once a second session has been opened, the delivery of a progress
\* event changes no closed dialog of an earlier session.
C17_NoStaleSubscription ==
    [][(delivered' # delivered /\ Len(sessions) >= 2) =>
          \A i \in 1..Len(sessions) :
             (~sessions[i].visible /\ i < Len(sessions)) =>
                sessions'[i] = sessions[i]]_vars

\* C18: the gauge of every dialog always shows a percentage within 0..100.
C18_GaugeWithinRange ==
    \A i \in 1..Len(sessions) : sessions[i].bar \in 0..100

(***************************************************************************)
(* Properties of the continuations.                                        *)
(***************************************************************************)

\* C19: the callback of the start call, run on a response without payload,
\* raises no exception and raises one red failure alert; the listeners, run
\* on an event with progress 0 and no message, raise no exception.
C19_AbsentFieldTolerated ==
    [][/\ calls' # calls =>
             \A k \in 1..Len(calls) :
                Ack(k, None) =>
                   /\ ~StartCallback(None, calls[k],
                                     [sessions |-> sessions, alerts |-> alerts,
                                      reloads |-> reloads, threw |-> FALSE]).threw
                   /\ Len(alerts') = Len(alerts) + 1
                   /\ alerts'[Len(alerts')].indicator = "red"
       /\ delivered' # delivered =>
             \A d \in ProgressEvents, stops \in BOOLEAN :
                (/\ d.progress = Some(0) /\ IsNone(d.message)
                 /\ Deliver(d, stops)) =>
                   ~Dispatch(listeners, d,
                             [sessions |-> sessions, alerts |-> alerts,
                              reloads |-> reloads, threw |-> FALSE],
                             stops).threw]_vars

\* C20: a confirmation prompt is opened only by a click on the offered
\* button (status 'Active' at the last refresh) with all three checks
\* passing; a start call is issued only by the step that confirms a prompt,
\* exactly one per confirmation, for this form's record; no other step, and
\* no answer or failure of a call, issues or removes a call.
C20_StartOncePerConfirmation ==
    [][/\ prompts' > prompts =>
             /\ buttonOffered /\ doc.status = "Active"
             /\ IsNone(Validate(doc))
             /\ prompts' = prompts + 1
             /\ Len(calls') = Len(calls)
       /\ Len(calls') # Len(calls) =>
             /\ prompts > 0 /\ prompts' = prompts - 1
             /\ declined' = declined
             /\ Len(calls') = Len(calls) + 1
             /\ SubSeq(calls', 1, Len(calls)) = calls
             /\ calls'[Len(calls')].method = CreateSiteMethod
             /\ calls'[Len(calls')].customer_site = DocName
             /\ calls'[Len(calls')].state = "sent"
       /\ (prompts' < prompts /\ declined' = declined) =>
             Len(calls') = Len(calls) + 1
       /\ Len(calls) = Len(sessions)]_vars

\* C20 witness: the one confirmed launch issued one start call, the call
\* failed in transport and no further call was issued
C20_Witness ==
    /\ Len(sessions) = 1
    /\ prompts = 0 /\ declined = 0
    /\ Len(calls) = 1
    /\ calls[1].state = "failed"

(***************************************************************************)
(* Properties of the Instance Action form.                                 *)
(***************************************************************************)

\* C22: after the form handled a non-empty site list, the site_actions
\* table has exactly one row per distinct site_name of the list, in the
\* order of first occurrence; every row has action 'Start Site' and the
\* site of the first entry with its name (none when that entry has no
\* customer_site), so no row of the table before the call is left.
C22_TableIsResponse ==
    [][ia' # ia =>
          \A k \in 1..Len(ia.requests), saveOk \in BOOLEAN :
             \A r \in SiteReplies(ia.requests[k].instance) :
                (~IsNone(r) /\ Get(r) # <<>> /\ SitesAnswered(k, r, saveOk)) =>
                   LET list == Get(r)
                       table == ia'.site_actions
                       first(name) ==
                          CHOOSE n \in 1..Len(list) :
                             /\ list[n].site_name = name
                             /\ \A m \in 1..(n - 1) : list[m].site_name # name
                   IN  /\ Len(table) = Cardinality({list[n].site_name :
                                                       n \in 1..Len(list)})
                       /\ \A j \in 1..Len(table) :
                             /\ \E n \in 1..Len(list) :
                                   list[n].site_name = table[j].site_name
                             /\ table[j].action = "Start Site"
                             /\ table[j].site
                                   = list[first(table[j].site_name)].customer_site
                       /\ \A i, j \in 1..Len(table) :
                             i < j => first(table[i].site_name)
                                         < first(table[j].site_name)]_vars

\* C22 witness: the list of InstanceA (a1 with a Customer Site, a2 without,
\* a1 again) was handled: two rows, a1 linked and a2 not
C22_Witness ==
    /\ ia # Unloaded
    /\ \E k \in 1..Len(ia.requests) :
          ia.requests[k] = [kind |-> "sites", instance |-> Some(InstanceA),
                            state |-> "done"]
    /\ ia.site_actions = <<Row("a1", Some("CS-a1"), "Start Site"),
                           Row("a2", None, "Start Site")>>

\* C23: a site-list answer with an absent or empty list leaves the table and
\* every other field of the record as they are, starts no save and raises
\* one orange alert; a rejected site-list call does the same with one red
\* alert.
C23_NoSitesLeavesTable ==
    [][ia' # ia =>
          \A k \in 1..Len(ia.requests) :
             /\ \A r \in {None, Some(<<>>)}, saveOk \in BOOLEAN :
                   SitesAnswered(k, r, saveOk) =>
                      ia' = [ia EXCEPT !.requests[k].state = "done",
                                       !.alerts = Append(@, AlertNoSites)]
             /\ SitesRejected(k) =>
                   /\ ia'.site_actions = ia.site_actions
                   /\ ia'.saves = ia.saves
                   /\ ia'.islocal = ia.islocal
                   /\ ia'.alerts = Append(ia.alerts, AlertSitesFailed)
                   /\ AlertSitesFailed.indicator = "red"
                   /\ AlertNoSites.indicator = "orange"]_vars

\* C23 witness: one site-list call was answered without sites and one was
\* rejected; the table still holds its old row and nothing was saved
C23_Witness ==
    /\ ia # Unloaded
    /\ ia.site_actions = OldTable
    /\ ia.saves = 0
    /\ ia.alerts = <<AlertNoSites, AlertSitesFailed>>

\* C24: once the site-list call issued for the selected instance has been
\* answered, the answer to a call issued for another, earlier selected
\* instance does not change the site_actions table.
C24_StaleAnswerIgnored ==
    [][ia' # ia =>
          \A k \in 1..Len(ia.requests), saveOk \in BOOLEAN :
             \A r \in SiteReplies(ia.requests[k].instance) :
                (/\ ia.requests[k].instance # ia.instance
                 /\ \E j \in 1..Len(ia.requests) :
                       /\ ia.requests[j].kind = "sites"
                       /\ ia.requests[j].instance = ia.instance
                       /\ ia.requests[j].state = "done"
                 /\ SitesAnswered(k, r, saveOk)) =>
                   ia'.site_actions = ia.site_actions]_vars

\* C25: a refresh offers Execute Action exactly for a saved record with
\* status 'Pending' and Cancel Action exactly for a record with status 'In
\* Progress', never both; the status of the record changes only when a
\* reload brings the server's status or when Cancel Action moves an 'In
\* Progress' record to 'Cancelled'; every Cancel Action also sets end_time,
\* ends execution_log with the cancellation line and starts one save.
C25_StatusButtons ==
    [][/\ ia'.offered # ia.offered => ia'.offered = RefreshButtons(ia')
       /\ ~({"Execute Action", "Cancel Action"} \subseteq ia'.offered)
       /\ \A f \in ActionForms :
             /\ "Execute Action" \in RefreshButtons(f)
                   <=> (f.status = "Pending" /\ ~f.islocal)
             /\ "Cancel Action" \in RefreshButtons(f)
                   <=> f.status = "In Progress"
       /\ ia'.status # ia.status =>
             \/ \E k \in 1..Len(ia.requests) : ExecuteResolved(k, ia'.status)
             \/ /\ ia.status = "In Progress"
                /\ ia'.status = "Cancelled"
                /\ \E saveOk \in BOOLEAN : CancelAction(saveOk)
       /\ \A saveOk \in BOOLEAN :
             CancelAction(saveOk) =>
                /\ ia'.status = "Cancelled"
                /\ ia'.end_time # None
                /\ ~IsNone(ia.execution_log) =>
                      ia'.execution_log = Some(Get(ia.execution_log) \o CancelLine)
                /\ SubSeq(Get(ia'.execution_log),
                          Len(Get(ia'.execution_log)) - Len(CancelLine) + 1,
                          Len(Get(ia'.execution_log))) = CancelLine
                /\ ia'.saves = ia.saves + 1]_vars

\* C25 witness: an 'In Progress' record was cancelled and saved: status
\* 'Cancelled', end_time set, the log ends with the cancellation line and
\* the refresh after the save offers neither button
C25_Witness ==
    /\ ia # Unloaded
    /\ ia.status = "Cancelled"
    /\ ia.end_time # None
    /\ ia.execution_log = Some(<<"started">> \o CancelLine)
    /\ ia.saves = 1
    /\ ia.offered \cap {"Execute Action", "Cancel Action"} = {}

(***************************************************************************)
(* Properties of the list views.                                           *)
(***************************************************************************)

\* C26: the query for pending actions is sent only by confirming a prompt,
\* and a decline sends nothing; execute calls are issued only when the query
\* is answered, one per returned name and in that order; the message 'All
\* pending actions have been executed' and the list refresh happen only in
\* a step after which every call of the batch is resolved, never for a
\* batch with a rejected call.
C26_ExecuteAllPending ==
    [][/\ xa'.queries > xa.queries =>
             /\ xa.prompts > 0 /\ xa'.prompts = xa.prompts - 1
             /\ xa'.declined = xa.declined
             /\ xa'.queries = xa.queries + 1
       /\ xa'.declined # xa.declined =>
             /\ xa'.queries = xa.queries
             /\ xa'.batches = xa.batches
       /\ Len(xa'.batches) # Len(xa.batches) =>
             /\ xa.queries > 0 /\ xa'.queries = xa.queries - 1
             /\ Len(xa'.batches) = Len(xa.batches) + 1
             /\ \E r \in PendingReplies :
                   /\ ~IsNone(r)
                   /\ xa'.batches[Len(xa'.batches)].names = Get(r)
                   /\ Len(xa'.batches[Len(xa'.batches)].states) = Len(Get(r))
                   /\ \E refreshOk \in BOOLEAN : PendingListed(r, refreshOk)
       /\ \A b \in 1..Len(xa.batches) :
             /\ xa'.batches[b].names = xa.batches[b].names
             /\ Len(xa'.batches[b].states) = Len(xa.batches[b].states)
       /\ (xa'.msgprints # xa.msgprints \/ xa'.refreshes # xa.refreshes) =>
             /\ Len(xa'.msgprints) = Len(xa.msgprints) + 1
             /\ xa'.refreshes \in {xa.refreshes, xa.refreshes + 1}
             /\ \E b \in 1..Len(xa'.batches) :
                   /\ \A j \in 1..Len(xa'.batches[b].states) :
                         xa'.batches[b].states[j] = "ok"
                   /\ xa'.batches[b].announced
                   /\ b \in 1..Len(xa.batches) => ~xa.batches[b].announced
       /\ \A b \in 1..Len(xa'.batches) :
             (\E j \in 1..Len(xa'.batches[b].states) :
                 xa'.batches[b].states[j] = "rejected")
                => ~xa'.batches[b].announced]_vars

\* C26 witness: one confirmed run found two pending actions, both execute
\* calls resolved, and the message was shown once
C26_Witness ==
    /\ xa # Unloaded
    /\ xa.clicks = 1
    /\ Len(xa.batches) = 1
    /\ xa.batches[1].names = <<"IA-1", "IA-2">>
    /\ xa.batches[1].states = <<"ok", "ok">>
    /\ xa.msgprints = <<MsgAllExecuted>>

\* C27: the menu item with nothing selected shows one message and opens no
\* dialog and sends no call; one Update click in a dialog sends exactly one
\* update call per request selected for that dialog, in order, all with the
\* chosen status and notes; the confirmation message, the list refresh and
\* the hiding of the dialog happen together and only in a step after which
\* every call of that click is resolved, so a dialog whose only click has a
\* rejected call stays open.
C27_BulkUpdate ==
    [][/\ BulkUpdateStatus(<<>>) =>
             /\ bulk'.msgprints = Append(bulk.msgprints, MsgSelectOne)
             /\ bulk'.dialogs = bulk.dialogs
             /\ bulk'.batches = bulk.batches
       /\ Len(bulk'.batches) # Len(bulk.batches) =>
             /\ Len(bulk'.batches) = Len(bulk.batches) + 1
             /\ LET nb == bulk'.batches[Len(bulk'.batches)]
                    sel == bulk.dialogs[nb.dialog].selected
                IN  /\ bulk.dialogs[nb.dialog].visible
                    /\ Len(nb.calls) = Len(sel)
                    /\ Len(nb.states) = Len(sel)
                    /\ \A j \in 1..Len(sel) :
                          /\ nb.calls[j].name = sel[j]
                          /\ nb.calls[j].status = nb.calls[1].status
                          /\ nb.calls[j].admin_notes = nb.calls[1].admin_notes
                          /\ nb.states[j] = "sent"
                    /\ \E values \in BulkValues :
                          /\ PrimaryAction(nb.dialog, values)
                          /\ nb.calls[1].status = values.status
                          /\ nb.calls[1].admin_notes = values.admin_notes
       /\ \A b \in 1..Len(bulk.batches) :
             bulk'.batches[b].calls = bulk.batches[b].calls
       /\ (\/ bulk'.refreshes # bulk.refreshes
           \/ \E d \in 1..Len(bulk.dialogs) :
                 bulk.dialogs[d].visible /\ ~bulk'.dialogs[d].visible
           \/ /\ Len(bulk'.msgprints) > Len(bulk.msgprints)
              /\ bulk'.msgprints[Len(bulk'.msgprints)] # MsgSelectOne) =>
             \E b \in 1..Len(bulk.batches) :
                /\ ~bulk.batches[b].announced /\ bulk'.batches[b].announced
                /\ \A j \in 1..Len(bulk'.batches[b].states) :
                      bulk'.batches[b].states[j] = "ok"
                /\ bulk'.msgprints = Append(bulk.msgprints,
                      MsgUpdated(Len(bulk.batches[b].calls)))
                /\ bulk'.refreshes = bulk.refreshes + 1
                /\ ~bulk'.dialogs[bulk.batches[b].dialog].visible
       /\ \A d \in 1..Len(bulk'.dialogs) :
             ~bulk'.dialogs[d].visible =>
                \E b \in 1..Len(bulk'.batches) :
                   /\ bulk'.batches[b].dialog = d
                   /\ \A j \in 1..Len(bulk'.batches[b].states) :
                         bulk'.batches[b].states[j] = "ok"]_vars

\* C27 witness: two requests were selected, the Update click sent two calls
\* with status 'Approved', one was rejected: no confirmation, no refresh and
\* the dialog is still open
C27_Witness ==
    /\ bulk # Unloaded
    /\ \E b \in 1..Len(bulk.batches) :
          /\ Len(bulk.batches[b].calls) = 2
          /\ bulk.batches[b].calls[1].status = "Approved"
          /\ bulk.batches[b].calls[2].status = "Approved"
          /\ bulk.batches[b].states = <<"ok", "rejected">>
          /\ bulk.dialogs[bulk.batches[b].dialog].visible
    /\ bulk.refreshes = 0
    /\ bulk.msgprints = <<>>

(***************************************************************************)
(* Properties of the Customer Request form.                                *)
(***************************************************************************)

C30_NoCreateWhenSiteExists ==
    [][cr'.issued > cr.issued => ~cr.siteExists]_vars

\* C21: the callback of the start call never lowers the percentage a dialog
\* shows: when start call k is answered with success, the gauge of its
\* dialog is at least what it was before the answer.
C21_AckKeepsPercentage ==
    [][\A k \in 1..Len(calls) :
          (/\ Len(calls') = Len(calls)
           /\ calls[k].state = "sent"
           /\ calls'[k].state = "done"
           /\ ~IsNone(calls'[k].response)
           /\ Get(calls'[k].response).success) =>
             sessions'[calls[k].session].bar >= sessions[calls[k].session].bar]_vars

\* C31: while custom_domain is read-only, which refresh makes it for a user
\* with neither the System Manager nor the Administrator role, no step of
\* the form changes the value of custom_domain.
C31_ReadOnlyDomainKept ==
    [][dom.readOnly => dom'.custom_domain = dom.custom_domain]_vars

\* C31, second sentence: whatever the roles, the suggestion of the
\* customer_name handler is set only into an empty custom_domain, and a
\* change of customer_name leaves a non-empty custom_domain as it is.
C31_SuggestionKeepsDomain ==
    [][/\ dom'.suggested > dom.suggested => dom.custom_domain = <<>>
       /\ (dom'.customer_name # dom.customer_name /\ dom.custom_domain # <<>>)
             => dom'.custom_domain = dom.custom_domain]_vars

\* a name was changed while custom_domain held a value, and the value stayed
C31_Witness ==
    /\ dom # Unloaded
    /\ dom.edits = 1
    /\ dom.customer_name = <<"b", "!">>
    /\ dom.custom_domain = <<"a", "b">>
    /\ dom.suggested = 0

====
